---- MODULE Spec2Model ----
(***************************************************************************)
(* A model of the MBCC server (packages/server/src/index.ts): the express  *)
(* middleware stack (CORS, request logger, rate limiter), the input        *)
(* validator, the lazily initialised sentiment pipeline, the in-memory     *)
(* mood ledger and its pagination, the error handler, and the process from *)
(* startServer to its exit on SIGTERM or SIGINT; and of the onboarding     *)
(* flow of the mobile app (OnboardingScreen and AppProvider).              *)
(*                                                                         *)
(* Node runs one turn of the event loop at a time: the code of a request   *)
(* runs without interruption from its arrival to its first await, and from *)
(* the settling of an awaited promise to the next await or the response.   *)
(* Each action below is one such turn.                                     *)
(***************************************************************************)
EXTENDS Integers, Sequences, FiniteSets, TLC

(***************************************************************************)
(* Bounds of the model.  The program's 1000-entry ledger cap, 1000-char    *)
(* text limit and 900000 ms window are scaled down.                         *)
(***************************************************************************)
MaxReq == 3
MaxTime == 3
RateLimitWindow == 2
LedgerCap == 2
TextLimit == 2
ShortTime == 1
ValidateReqs == 2
FairReqs == 2
\* the 50 characters of a name (validateName, TextInput maxLength), scaled down
NameMax == 3

\* parseInt(req.query.limit) || 50 and parseInt(req.query.offset) || 0
DefaultLimit == 50
DefaultOffset == 0

VARIABLES
  now,               \* Date.now()
  rateLimitMax,      \* config.rateLimitMax
  corsOrigin,        \* config.corsOrigin
  rateLimitStore,    \* Map<clientId, {count, resetTime}>
  sentimentPipeline, \* FALSE: null, TRUE: the initialised pipeline
  moodEntries,       \* MoodEntry[]
  req,               \* the requests: position, inputs, response status
  last,              \* what the latest turn of the event loop did and sent
  appended,          \* history: every entry pushed to moodEntries, in order
  window,            \* history: per client, start of and requests in its window
  server,            \* the http server: "starting", "listening" or "closing"
  exitCode,          \* the code process.exit was called with, -1 while the process runs
  draining,          \* history: the requests in flight when server.close was first called
  onboarding         \* the mobile app: the state of OnboardingScreen and of AppProvider

vars == <<now, rateLimitMax, corsOrigin, rateLimitStore, sentimentPipeline, moodEntries,
          req, last, appended, window, server, exitCode, draining, onboarding>>

\* the variables of the server
serverVars == <<now, rateLimitMax, corsOrigin, rateLimitStore, sentimentPipeline, moodEntries,
                req, last, appended, window, server, exitCode, draining>>

Running == exitCode = -1

Min(a, b) == IF a < b THEN a ELSE b
Max(a, b) == IF a > b THEN a ELSE b

Req == 1..MaxReq
Clients == {"ip1", "ip2"}

GetHealth == "GET /api/health"
PostSentiment == "POST /api/sentiment"
PostMoods == "POST /api/moods"
GetMoods == "GET /api/moods"
GetUnknown == "GET /api/unknown"
Options == "OPTIONS /api/moods"
Routes == {GetHealth, PostSentiment, PostMoods, GetMoods, GetUnknown, Options}
AnalyzeRoutes == {PostSentiment, PostMoods}

\* more requests that match no route of createApp
PostUnknown == "POST /api/unknown"
DeleteMoods == "DELETE /api/moods"
OptionsUnknown == "OPTIONS /api/unknown"
Unmatched == {GetUnknown, PostUnknown, DeleteMoods, Options, OptionsUnknown}

\* req.method === 'OPTIONS'
IsOptions(route) == route \in {Options, OptionsUnknown}

(***************************************************************************)
(* Strings are sequences of characters: "a" stands for any non-blank       *)
(* character, " " for white space.                                         *)
(***************************************************************************)
Chars == {"a", " "}

RECURSIVE TrimStart(_)
TrimStart(s) == IF s # <<>> /\ Head(s) = " " THEN TrimStart(Tail(s)) ELSE s

RECURSIVE TrimEnd(_)
TrimEnd(s) ==
  IF s # <<>> /\ s[Len(s)] = " " THEN TrimEnd(SubSeq(s, 1, Len(s) - 1)) ELSE s

\* String.prototype.trim
Trim(s) == TrimEnd(TrimStart(s))

(***************************************************************************)
(* A request body's text field: absent, a non-string (a number), or a      *)
(* string.                                                                 *)
(***************************************************************************)
NoText == [kind |-> "undefined", chars |-> <<>>]
NumberText == [kind |-> "number", chars |-> <<>>]
Str(s) == [kind |-> "string", chars |-> s]
\* a JSON body that express.json cannot parse: no req.body at all
MalformedBody == [kind |-> "malformed", chars |-> <<>>]

RECURSIVE StringsUpTo(_)
StringsUpTo(n) ==
  IF n = 0 THEN {<<>>}
  ELSE LET shorter == StringsUpTo(n - 1)
       IN  shorter \cup {Append(s, c) : s \in {t \in shorter : Len(t) = n - 1}, c \in Chars}

AllTexts == {NoText, NumberText} \cup {Str(s) : s \in StringsUpTo(TextLimit + 1)}
FewTexts == {NoText, Str(<<"a">>), Str(<<" ", "a">>)}
GoodTexts == {Str(<<"a">>), Str(<<" ", "a">>)}
\* the texts validateSentimentInput lets through
ValidTexts == {Str(s) : s \in {t \in StringsUpTo(TextLimit) : Trim(t) # <<>>}}

\* validateSentimentInput rejecting a text of exactly the limit too
ValidateSentimentInputExclusive(text) ==
  IF text.kind # "string" \/ text.chars = <<>>
    THEN "Text field is required and must be a string"
  ELSE IF Len(Trim(text.chars)) = 0
    THEN "Text cannot be empty"
  ELSE IF Len(text.chars) >= TextLimit
    THEN "Text must be less than 1000 characters"
  ELSE ""

\* validateSentimentInput without the trim: a blank text passes
ValidateSentimentInputUntrimmed(text) ==
  IF text.kind # "string" \/ text.chars = <<>>
    THEN "Text field is required and must be a string"
  ELSE IF Len(text.chars) > TextLimit
    THEN "Text must be less than 1000 characters"
  ELSE ""

\* validateSentimentInput: the message of the 400 it answers, "" when it calls next()
ValidateSentimentInput(text) ==
  IF text.kind # "string" \/ text.chars = <<>>
    THEN "Text field is required and must be a string"
  ELSE IF Len(Trim(text.chars)) = 0
    THEN "Text cannot be empty"
  ELSE IF Len(text.chars) > TextLimit
    THEN "Text must be less than 1000 characters"
  ELSE ""

(***************************************************************************)
(* Query parameters, as the strings express hands over ("undefined" when   *)
(* the parameter is absent), and parseInt on them.                         *)
(***************************************************************************)
QueryValues == {"undefined", "abc", "-1", "0", "1", "2", "3"}
NaN == [nan |-> TRUE, n |-> 0]
Num(n) == [nan |-> FALSE, n |-> n]

ParseInt(s) ==
  CASE s = "-1" -> Num(-1)
    [] s = "0" -> Num(0)
    [] s = "1" -> Num(1)
    [] s = "2" -> Num(2)
    [] s = "3" -> Num(3)
    [] OTHER -> NaN

\* parseInt(s) || d: NaN and 0 are falsy
ParseIntOr(s, d) ==
  LET p == ParseInt(s) IN IF p.nan \/ p.n = 0 THEN d ELSE p.n

\* Array.prototype.reverse
Reverse(s) == [i \in 1..Len(s) |-> s[Len(s) + 1 - i]]

\* Array.prototype.slice(start, end), negative indices counted from the end
Slice(s, start, end) ==
  LET n == Len(s)
      from == IF start < 0 THEN Max(n + start, 0) ELSE Min(start, n)
      to == IF end < 0 THEN Max(n + end, 0) ELSE Min(end, n)
  IN  IF from >= to THEN <<>> ELSE SubSeq(s, from + 1, to)

\* GET /api/moods: the body of the 200
ListMoods(entries, qlimit, qoffset) ==
  LET limit == ParseIntOr(qlimit, DefaultLimit)
      offset == ParseIntOr(qoffset, DefaultOffset)
  IN  [moods |-> Slice(Reverse(entries), offset, offset + limit),
       total |-> Len(entries),
       limit |-> limit,
       offset |-> offset]

(***************************************************************************)
(* The mood ledger: push, then splice(0, length - 1000) when over the cap. *)
(***************************************************************************)
\* the splice taken from the wrong end: the oldest entries are kept
TrimLedgerKeepOldest(entries) ==
  IF Len(entries) > LedgerCap THEN SubSeq(entries, 1, LedgerCap) ELSE entries

TrimLedger(entries) ==
  IF Len(entries) > LedgerCap
    THEN SubSeq(entries, Len(entries) - LedgerCap + 1, Len(entries))
    ELSE entries

\* the push alone, the splice left to a later turn
PushMoodUntrimmed(entries, e) == Append(entries, e)

\* unshift instead of push: the new entry is put in front
PushMoodInFront(entries, e) == TrimLedger(<<e>> \o entries)

PushMood(entries, e) == TrimLedger(Append(entries, e))

(***************************************************************************)
(* The rate limiter.                                                       *)
(***************************************************************************)
\* no clean-up loop: every record stays
CleanUpNothing(store, t) == store

\* the clean-up loop deleting the records with resetTime <= now as well
CleanUpEager(store, t) ==
  [k \in {c \in DOMAIN store : ~(store[c].resetTime <= t)} |-> store[k]]

\* the clean-up loop: delete every record with resetTime < now
CleanUp(store, t) ==
  [k \in {c \in DOMAIN store : ~(store[c].resetTime < t)} |-> store[k]]

SetRecord(store, c, rec) ==
  [k \in DOMAIN store \cup {c} |-> IF k = c THEN rec ELSE store[k]]

\* rateLimitMiddleware keeping one record for all clients, under the key of the
\* first
RateLimitMiddlewareOneKey(store, c, t, max) ==
  LET s == CleanUp(store, t)
      key == "ip1"
  IN  IF key \notin DOMAIN s \/ s[key].resetTime < t
        THEN [store |-> SetRecord(s, key, [count |-> 1, resetTime |-> t + RateLimitWindow]),
              allowed |-> TRUE]
      ELSE IF s[key].count >= max
        THEN [store |-> s, allowed |-> FALSE]
      ELSE [store |-> [s EXCEPT ![key].count = @ + 1], allowed |-> TRUE]

\* rateLimitMiddleware without the clean-up loop
RateLimitMiddlewareNoPurge(store, c, t, max) ==
  IF c \notin DOMAIN store \/ store[c].resetTime < t
    THEN [store |-> SetRecord(store, c, [count |-> 1, resetTime |-> t + RateLimitWindow]),
          allowed |-> TRUE]
  ELSE IF store[c].count >= max
    THEN [store |-> store, allowed |-> FALSE]
  ELSE [store |-> [store EXCEPT ![c].count = @ + 1], allowed |-> TRUE]

\* rateLimitMiddleware counting the requests it denies too
RateLimitMiddlewareCountingDenied(store, c, t, max) ==
  LET s == CleanUp(store, t) IN
  IF c \notin DOMAIN s \/ s[c].resetTime < t
    THEN [store |-> SetRecord(s, c, [count |-> 1, resetTime |-> t + RateLimitWindow]),
          allowed |-> TRUE]
  ELSE IF s[c].count >= max
    THEN [store |-> [s EXCEPT ![c].count = @ + 1], allowed |-> FALSE]
  ELSE [store |-> [s EXCEPT ![c].count = @ + 1], allowed |-> TRUE]

\* rateLimitMiddleware with the increment of an admitted request lost
RateLimitMiddlewareLostUpdate(store, c, t, max) ==
  LET s == CleanUp(store, t) IN
  IF c \notin DOMAIN s \/ s[c].resetTime < t
    THEN [store |-> SetRecord(s, c, [count |-> 1, resetTime |-> t + RateLimitWindow]),
          allowed |-> TRUE]
  ELSE IF s[c].count >= max
    THEN [store |-> s, allowed |-> FALSE]
  ELSE [store |-> s, allowed |-> TRUE]

\* rateLimitMiddleware with the ceiling compared by > instead of >=
RateLimitMiddlewareOffByOne(store, c, t, max) ==
  LET s == CleanUp(store, t) IN
  IF c \notin DOMAIN s \/ s[c].resetTime < t
    THEN [store |-> SetRecord(s, c, [count |-> 1, resetTime |-> t + RateLimitWindow]),
          allowed |-> TRUE]
  ELSE IF s[c].count > max
    THEN [store |-> s, allowed |-> FALSE]
  ELSE [store |-> [s EXCEPT ![c].count = @ + 1], allowed |-> TRUE]

\* rateLimitMiddleware: the store it leaves and whether it called next()
RateLimitMiddleware(store, c, t, max) ==
  LET s == CleanUp(store, t) IN
  IF c \notin DOMAIN s \/ s[c].resetTime < t
    THEN [store |-> SetRecord(s, c, [count |-> 1, resetTime |-> t + RateLimitWindow]),
          allowed |-> TRUE]
  ELSE IF s[c].count >= max
    THEN [store |-> s, allowed |-> FALSE]
  ELSE [store |-> [s EXCEPT ![c].count = @ + 1], allowed |-> TRUE]

(***************************************************************************)
(* Errors.  errorHandler classifies by searching the message.              *)
(***************************************************************************)
InitFailedMessage == "Sentiment analysis service unavailable"
\* the message of the error express.json passes to next() for a body it cannot parse
ParseFailedMessage == "Unexpected token in JSON"
AnalyzeFailedMessage == "Failed to analyze sentiment"

\* the messages of the errors the collaborator may reject an analysis with
Faults == {"Model unavailable", "Validation of the input failed", "Out of memory"}

\* the catch of analyzeSentiment that rethrows the error it caught
AnalyzeSentimentCatchRethrow(fault) == fault

\* the catch of analyzeSentiment: logs the fault, throws a new Error with a fixed
\* message
AnalyzeSentimentCatch(fault) == AnalyzeFailedMessage

\* err.message.includes('Validation')
IncludesValidation(msg) == msg = "Validation of the input failed"
\* the search word capitalised: includes('Unavailable') matches no message
IncludesUnavailableCapitalised(msg) == msg = "Sentiment analysis service Unavailable"

\* err.message.includes('unavailable')
IncludesUnavailable(msg) == msg \in {InitFailedMessage, "Model unavailable"}

ErrorStatus(msg) ==
  IF IncludesValidation(msg) THEN 400
  ELSE IF IncludesUnavailable(msg) THEN 503
  ELSE 500

\* errorHandler: the response it sends
ErrorHandler(msg) ==
  LET statusCode == ErrorStatus(msg)
  IN  [status |-> statusCode,
       error |-> IF statusCode = 500 THEN "Internal Server Error" ELSE msg,
       message |-> IF statusCode = 500 THEN "An unexpected error occurred" ELSE msg]

(***************************************************************************)
(* The sentiment collaborator's output and analyzeSentiment's result.      *)
(***************************************************************************)
Labels == {"POSITIVE", "NEGATIVE"}
AllLabels == {"POSITIVE", "Positive", "positive", "NEGATIVE", "NEUTRAL", "POSITIVE "}
\* scores in thousandths
Scores == {905}
Rnds == {0}

\* String.prototype.toLowerCase, on the labels
ToLowerCase(label) ==
  CASE label = "POSITIVE" -> "positive"
    [] label = "Positive" -> "positive"
    [] label = "NEGATIVE" -> "negative"
    [] label = "NEUTRAL" -> "neutral"
    [] label = "POSITIVE " -> "positive "
    [] OTHER -> label

\* the label compared without toLowerCase()
NormalizedSentimentCaseSensitive(label) ==
  IF label = "positive" THEN "positive" ELSE "negative"

NormalizedSentiment(label) ==
  IF ToLowerCase(label) = "positive" THEN "positive" ELSE "negative"

\* Math.round(score * 100) / 100, in hundredths
Confidence(score) == (score + 5) \div 10

(***************************************************************************)
(* Response headers: the first middleware of createApp and corsMiddleware  *)
(* set them on res before anything can send.                               *)
(***************************************************************************)
DefaultOrigin == "*"
Origins == {DefaultOrigin, "https://mbcc.example"}

SecurityHeaders ==
  {<<"X-Content-Type-Options", "nosniff">>, <<"X-Frame-Options", "DENY">>,
   <<"X-XSS-Protection", "1; mode=block">>,
   <<"Strict-Transport-Security", "max-age=31536000; includeSubDomains">>}

\* corsMiddleware with the origin written into it
CorsHeadersWildcard(origin) ==
  {<<"Access-Control-Allow-Origin", "*">>,
   <<"Access-Control-Allow-Methods", "GET, POST, PUT, DELETE, OPTIONS">>,
   <<"Access-Control-Allow-Headers",
     "Origin, X-Requested-With, Content-Type, Accept, Authorization">>}

\* corsMiddleware: the headers it sets
CorsHeaders(origin) ==
  {<<"Access-Control-Allow-Origin", origin>>,
   <<"Access-Control-Allow-Methods", "GET, POST, PUT, DELETE, OPTIONS">>,
   <<"Access-Control-Allow-Headers",
     "Origin, X-Requested-With, Content-Type, Accept, Authorization">>}

\* the headers on res when the first two middleware have run
SetHeaders(origin) == SecurityHeaders \cup CorsHeaders(origin)

(***************************************************************************)
(* Responses.  One record shape for every body; a field a body does not    *)
(* have keeps its value in NoResponse.                                     *)
(***************************************************************************)
NoResponse ==
  [status |-> 0, error |-> "", message |-> "", health |-> "", sentimentAnalysis |-> "",
   sentiment |-> "", confidence |-> -1, text |-> <<>>, entry |-> <<>>,
   moods |-> <<>>, total |-> -1, limit |-> -1, offset |-> -1]

ErrorResponse(status, error, message) ==
  [NoResponse EXCEPT !.status = status, !.error = error, !.message = message]

\* corsMiddleware on an OPTIONS request: res.sendStatus(200)
PreflightResponse == [NoResponse EXCEPT !.status = 200]

RateLimitResponse == ErrorResponse(429, "Rate Limit Exceeded", "Too many requests")

ValidationResponse(message) == ErrorResponse(400, "Validation Error", message)

NotFoundResponse == ErrorResponse(404, "Not Found", "Route not found")

ErrorHandlerResponse(msg) ==
  LET e == ErrorHandler(msg) IN ErrorResponse(e.status, e.error, e.message)

HealthResponse(ready) ==
  [NoResponse EXCEPT !.status = 200, !.health = "healthy",
     !.sentimentAnalysis = IF ready THEN "ready" ELSE "initializing"]

ListMoodsResponse(entries, qlimit, qoffset) ==
  LET page == ListMoods(entries, qlimit, qoffset)
  IN  [NoResponse EXCEPT !.status = 200, !.moods = page.moods, !.total = page.total,
         !.limit = page.limit, !.offset = page.offset]

\* the argument of sentimentPipeline(text) in analyzeSentiment: the text as the
\* handler took it from the body
PipelineInput(text) == text.chars

\* analyzeSentiment's return value
SentimentResult(chars, label, score) ==
  [sentiment |-> NormalizedSentiment(label), confidence |-> Confidence(score),
   text |-> Trim(chars)]

SentimentResponse(result) ==
  [NoResponse EXCEPT !.status = 200, !.sentiment = result.sentiment,
     !.confidence = result.confidence, !.text = result.text]

\* the MoodEntry POST /api/moods builds
MoodEntry(result, t, rnd) ==
  [id |-> <<t, rnd>>, text |-> result.text, sentiment |-> result.sentiment,
   confidence |-> result.confidence, timestamp |-> t]

CreatedResponse(entry) == [NoResponse EXCEPT !.status = 201, !.entry = <<entry>>]

(***************************************************************************)
(* The mobile app's onboarding: the state of OnboardingScreen (useState)   *)
(* and the fields of AppProvider's state the flow writes.  null is "" for  *)
(* the error strings and <<>> for the user.                                *)
(***************************************************************************)
NameMin == 2
\* what the name input can hold: TextInput maxLength
Names == StringsUpTo(NameMax)
Emojis == {"smile", "cry"}
Frequencies == {"daily", "weekly", "monthly"}

\* validateName: the error message, "" for null
ValidateName(name) ==
  IF Trim(name) = <<>> THEN "Name is required"
  ELSE IF Len(Trim(name)) < NameMin THEN "Name must be at least 2 characters"
  ELSE IF Len(Trim(name)) > NameMax THEN "Name must be less than 50 characters"
  ELSE ""

\* prev.filter(e => e !== emoji)
Without(emojis, emoji) == SelectSeq(emojis, LAMBDA e : e # emoji)

\* handleEmojiToggle's updater
Toggle(emojis, emoji) ==
  IF \E i \in DOMAIN emojis : emojis[i] = emoji
    THEN Without(emojis, emoji)
    ELSE Append(emojis, emoji)

\* the User handleComplete builds (its id, Date.now().toString(), is left out)
NewUser(name, frequency, emojis) ==
  [name |-> Trim(name),
   preferences |-> [moodTrackingFrequency |-> frequency, selectedEmojis |-> emojis,
                    notificationsEnabled |-> TRUE]]

\* the useState initial values
InitialOnboarding ==
  [currentStep |-> 0, name |-> <<>>, nameError |-> "", selectedEmojis |-> <<>>,
   frequency |-> "daily", user |-> <<>>, isOnboarding |-> TRUE, error |-> ""]

(***************************************************************************)
(* The state after module load: no pipeline, an empty ledger, an empty     *)
(* rate-limit store.  config.rateLimitMax comes from the environment.      *)
(***************************************************************************)
IdleRequest ==
  [pc |-> "idle", route |-> "", text |-> NoText, status |-> 0, headers |-> {},
   closed |-> FALSE]

\* a request that was answered: its inputs and its res object are no longer read
Answered(route, status) ==
  [pc |-> "done", route |-> route, text |-> NoText, status |-> status, headers |-> {},
   closed |-> FALSE]

NoTurn ==
  [req |-> 0, event |-> "none", route |-> "", client |-> "", text |-> NoText,
   qlimit |-> "undefined", qoffset |-> "undefined", gate |-> "none", label |-> "",
   response |-> NoResponse, headers |-> {}, ran |-> <<>>, closed |-> FALSE]

NoWindow == [start |-> -1, seen |-> 0, opened |-> 0, denied |-> 0, admitted |-> 0]

InitOf(ceilings, state, origins) ==
  /\ now = 0
  /\ rateLimitMax \in ceilings
  /\ corsOrigin \in origins
  /\ rateLimitStore = <<>>
  /\ sentimentPipeline = FALSE
  /\ moodEntries = <<>>
  /\ req = [r \in Req |-> IdleRequest]
  /\ last = NoTurn
  /\ appended = <<>>
  /\ window = [c \in Clients |-> NoWindow]
  /\ server = state
  /\ exitCode = -1
  /\ draining = {}
  /\ onboarding = InitialOnboarding

\* CORS_ORIGIN is not set: config.corsOrigin is '*'
InitAs(ceilings, state) == InitOf(ceilings, state, {DefaultOrigin})

\* createApp() alone, as the tests use it: requests are served from the start
InitWith(ceilings) == InitAs(ceilings, "listening")

Init == InitWith(0..MaxReq)

\* the clock advances between turns, up to a horizon
Tick(horizon) ==
  /\ Running
  /\ now < horizon
  /\ now' = now + 1
  /\ last' = [NoTurn EXCEPT !.event = "tick"]
  /\ UNCHANGED <<onboarding, corsOrigin, server, exitCode, draining, rateLimitMax, rateLimitStore,
                 sentimentPipeline, moodEntries, req, appended, window>>

\* History of a client's requests at the rate limiter, kept apart from the
\* limiter's own records: a request later than RateLimitWindow after the first
\* request of the client's window opens a new window.  seen counts the requests
\* inside the window, opened the windows, denied the client's 429s, admitted the
\* requests of the window for which next() was called.
Observe(w, t, allowed) ==
  LET counted ==
        IF w.start = -1 \/ t > w.start + RateLimitWindow
          THEN [w EXCEPT !.start = t, !.seen = 1, !.opened = @ + 1, !.admitted = 0]
          ELSE [w EXCEPT !.seen = @ + 1]
  IN  [counted EXCEPT !.denied = IF allowed THEN @ ELSE @ + 1,
                      !.admitted = IF allowed THEN @ + 1 ELSE @]

(***************************************************************************)
(* The route of an admitted request, up to its first await: the position   *)
(* it is left in and, when it is answered in this turn, the response.      *)
(***************************************************************************)
\* analyzeSentiment up to its first await
AnalyzeSentimentStart(ready) == IF ready THEN "analyze" ELSE "init"

Route(route, text, qlimit, qoffset, ready, entries) ==
  CASE route = GetHealth ->
         [pc |-> "done", response |-> HealthResponse(ready), ran |-> <<"handler">>]
    [] route \in AnalyzeRoutes ->
         IF ValidateSentimentInput(text) # ""
           THEN [pc |-> "done", response |-> ValidationResponse(ValidateSentimentInput(text)),
                 ran |-> <<"handler", "validateSentimentInput">>]
           ELSE [pc |-> AnalyzeSentimentStart(ready), response |-> NoResponse,
                 ran |-> <<"handler", "validateSentimentInput", "analyzeSentiment">>]
    [] route = GetMoods ->
         [pc |-> "done", response |-> ListMoodsResponse(entries, qlimit, qoffset),
          ran |-> <<"handler">>]
    [] OTHER ->
         [pc |-> "done", response |-> NotFoundResponse, ran |-> <<"notFound">>]

\* the middleware that run before a route, in the order of the app.use calls
BeforeCors == <<"securityHeaders", "corsMiddleware">>
BeforeLimiter == BeforeCors \o <<"express.json", "express.urlencoded", "requestLogger">>

\* the stack with a corsMiddleware that calls next() for an OPTIONS request too
StackWithoutPreflight(route, client, text, qlimit, qoffset, store, t, max, ready, entries) ==
  IF text = MalformedBody
    THEN [pc |-> "done", response |-> ErrorHandlerResponse(ParseFailedMessage),
          gate |-> "none", store |-> store,
          ran |-> BeforeCors \o <<"express.json", "errorHandler">>]
  ELSE LET limiter == RateLimitMiddleware(store, client, t, max) IN
       IF ~limiter.allowed
         THEN [pc |-> "done", response |-> RateLimitResponse, gate |-> "denied",
               store |-> limiter.store, ran |-> BeforeLimiter \o <<"rateLimitMiddleware">>]
         ELSE LET routed == Route(route, text, qlimit, qoffset, ready, entries)
              IN  [pc |-> routed.pc, response |-> routed.response, gate |-> "allowed",
                   store |-> limiter.store,
                   ran |-> BeforeLimiter \o <<"rateLimitMiddleware">> \o routed.ran]

\* the stack with a rateLimitMiddleware that sends the 429 and calls next() all
\* the same
StackFallingThrough(route, client, text, qlimit, qoffset, store, t, max, ready, entries) ==
  IF IsOptions(route)
    THEN [pc |-> "done", response |-> PreflightResponse, gate |-> "none", store |-> store,
          ran |-> BeforeCors]
  ELSE IF text = MalformedBody
    THEN [pc |-> "done", response |-> ErrorHandlerResponse(ParseFailedMessage),
          gate |-> "none", store |-> store,
          ran |-> BeforeCors \o <<"express.json", "errorHandler">>]
  ELSE LET limiter == RateLimitMiddleware(store, client, t, max)
           routed == Route(route, text, qlimit, qoffset, ready, entries)
       IN  [pc |-> routed.pc,
            response |-> IF limiter.allowed THEN routed.response ELSE RateLimitResponse,
            gate |-> IF limiter.allowed THEN "allowed" ELSE "denied",
            store |-> limiter.store,
            ran |-> BeforeLimiter \o <<"rateLimitMiddleware">> \o routed.ran]

\* the middleware stack of createApp, then the route: corsMiddleware, express.json
\* (a body it cannot parse goes to errorHandler, past every other middleware),
\* express.urlencoded, requestLogger, rateLimitMiddleware
Stack(route, client, text, qlimit, qoffset, store, t, max, ready, entries) ==
  IF IsOptions(route)
    THEN [pc |-> "done", response |-> PreflightResponse, gate |-> "none", store |-> store,
          ran |-> BeforeCors]
  ELSE IF text = MalformedBody
    THEN [pc |-> "done", response |-> ErrorHandlerResponse(ParseFailedMessage),
          gate |-> "none", store |-> store,
          ran |-> BeforeCors \o <<"express.json", "errorHandler">>]
  ELSE LET limiter == RateLimitMiddleware(store, client, t, max) IN
       IF ~limiter.allowed
         THEN [pc |-> "done", response |-> RateLimitResponse, gate |-> "denied",
               store |-> limiter.store, ran |-> BeforeLimiter \o <<"rateLimitMiddleware">>]
         ELSE LET routed == Route(route, text, qlimit, qoffset, ready, entries)
              IN  [pc |-> routed.pc, response |-> routed.response, gate |-> "allowed",
                   store |-> limiter.store,
                   ran |-> BeforeLimiter \o <<"rateLimitMiddleware">> \o routed.ran]

\* the inputs a route reads: the body's text on the POST routes, the query on
\* GET /api/moods; an input the route does not read is left absent
TextsOf(route, texts) == IF route \in AnalyzeRoutes THEN texts ELSE {NoText}
QueriesOf(route, queries) == IF route = GetMoods THEN queries ELSE {"undefined"}

\* a request arrives and runs to its response or its first await
Arrive(r, route, client, text, qlimit, qoffset) ==
  /\ Running
  /\ server = "listening"
  /\ req[r].pc = "idle"
  /\ \A q \in Req : q < r => req[q].pc # "idle"
  /\ LET out == Stack(route, client, text, qlimit, qoffset, rateLimitStore, now,
                      rateLimitMax, sentimentPipeline, moodEntries)
     IN  /\ rateLimitStore' = out.store
         /\ req' = [req EXCEPT ![r] =
                      IF out.pc = "done" THEN Answered(route, out.response.status)
                      ELSE [pc |-> out.pc, route |-> route, text |-> text, status |-> 0,
                            headers |-> SetHeaders(corsOrigin), closed |-> FALSE]]
         /\ last' = [req |-> r, event |-> "arrive", route |-> route, client |-> client,
                     text |-> text, qlimit |-> qlimit, qoffset |-> qoffset,
                     gate |-> out.gate, label |-> "", response |-> out.response,
                     headers |-> IF out.pc = "done" THEN SetHeaders(corsOrigin) ELSE {},
                     ran |-> out.ran, closed |-> FALSE]
         /\ window' = IF out.gate = "none" THEN window
                      ELSE [window EXCEPT ![client] = Observe(@, now, out.gate = "allowed")]
  /\ UNCHANGED <<onboarding, corsOrigin, server, exitCode, draining, now, rateLimitMax, sentimentPipeline, moodEntries, appended>>

Turn(r, event, response) ==
  [req |-> r, event |-> event, route |-> req[r].route, client |-> "",
   text |-> req[r].text, qlimit |-> "undefined", qoffset |-> "undefined",
   gate |-> "none", label |-> "", response |-> response,
   headers |-> IF response = NoResponse THEN {} ELSE req[r].headers, ran |-> <<>>,
   closed |-> req[r].closed]

\* the client of a request in flight disconnects: the socket is closed and what
\* the handler sends later reaches nobody.  No handler listens for 'close' or
\* 'aborted', so no code of the server runs and the request keeps waiting
Disconnect(r) ==
  /\ Running
  /\ req[r].pc \in {"init", "analyze"}
  /\ ~req[r].closed
  /\ req' = [req EXCEPT ![r].closed = TRUE]
  /\ last' = Turn(r, "disconnect", NoResponse)
  /\ UNCHANGED <<onboarding, corsOrigin, server, exitCode, draining, now, rateLimitMax, rateLimitStore,
                 sentimentPipeline, moodEntries, appended, window>>

\* pipeline(...) resolves: the pipeline is stored and sentimentPipeline(text) is called
InitResolve(r) ==
  /\ Running
  /\ req[r].pc = "init"
  /\ sentimentPipeline' = TRUE
  /\ req' = [req EXCEPT ![r].pc = "analyze"]
  /\ last' = Turn(r, "initResolved", NoResponse)
  /\ UNCHANGED <<onboarding, corsOrigin, server, exitCode, draining, now, rateLimitMax, rateLimitStore, moodEntries, appended, window>>

\* InitReject of a handler whose catch does not call next(error): no response
InitRejectSwallowed(r) ==
  /\ Running
  /\ req[r].pc = "init"
  /\ req' = [req EXCEPT ![r].pc = "failed"]
  /\ last' = Turn(r, "initRejected", NoResponse)
  /\ UNCHANGED <<onboarding, corsOrigin, server, exitCode, draining, now, rateLimitMax, rateLimitStore, sentimentPipeline, moodEntries,
                 appended, window>>

\* InitReject with a catch that also clears the pipeline (sentimentPipeline = null)
InitRejectClearing(r) ==
  /\ Running
  /\ req[r].pc = "init"
  /\ LET response == ErrorHandlerResponse(InitFailedMessage)
     IN  /\ req' = [req EXCEPT ![r] = Answered(req[r].route, response.status)]
         /\ last' = Turn(r, "initRejected", response)
  /\ sentimentPipeline' = FALSE
  /\ UNCHANGED <<onboarding, corsOrigin, server, exitCode, draining, now, rateLimitMax, rateLimitStore, moodEntries, appended, window>>

\* pipeline(...) rejects: initializeSentimentPipeline throws, the handler's catch
\* passes the error to errorHandler
InitReject(r) ==
  /\ Running
  /\ req[r].pc = "init"
  /\ LET response == ErrorHandlerResponse(InitFailedMessage)
     IN  /\ req' = [req EXCEPT ![r] = Answered(req[r].route, response.status)]
         /\ last' = Turn(r, "initRejected", response)
  /\ UNCHANGED <<onboarding, corsOrigin, server, exitCode, draining, now, rateLimitMax, rateLimitStore, sentimentPipeline, moodEntries,
                 appended, window>>

\* AnalyzeResolve with a POST /api/sentiment handler that stores the result too
AnalyzeResolvePersisting(r, label, score, rnd) ==
  /\ Running
  /\ req[r].pc = "analyze"
  /\ LET result == SentimentResult(req[r].text.chars, label, score)
         entry == MoodEntry(result, now, rnd)
     IN  /\ moodEntries' = PushMood(moodEntries, entry)
         /\ appended' = Append(appended, entry)
         /\ IF req[r].route = PostMoods
              THEN /\ req' = [req EXCEPT ![r] = Answered(PostMoods, 201)]
                   /\ last' = [Turn(r, "analyzed", CreatedResponse(entry)) EXCEPT !.label = label]
              ELSE /\ req' = [req EXCEPT ![r] = Answered(req[r].route, 200)]
                   /\ last' = [Turn(r, "analyzed", SentimentResponse(result)) EXCEPT !.label = label]
  /\ UNCHANGED <<onboarding, corsOrigin, server, exitCode, draining, now, rateLimitMax, rateLimitStore, sentimentPipeline, window>>

\* sentimentPipeline(text) resolves with [{label, score}]
AnalyzeResolve(r, label, score, rnd) ==
  /\ Running
  /\ req[r].pc = "analyze"
  /\ LET result == SentimentResult(req[r].text.chars, label, score)
         entry == MoodEntry(result, now, rnd)
     IN  IF req[r].route = PostMoods
           THEN /\ moodEntries' = PushMood(moodEntries, entry)
                /\ appended' = Append(appended, entry)
                /\ req' = [req EXCEPT ![r] = Answered(PostMoods, 201)]
                /\ last' = [Turn(r, "analyzed", CreatedResponse(entry)) EXCEPT !.label = label]
           ELSE /\ UNCHANGED <<moodEntries, appended>>
                /\ req' = [req EXCEPT ![r] = Answered(req[r].route, 200)]
                /\ last' = [Turn(r, "analyzed", SentimentResponse(result)) EXCEPT !.label = label]
  /\ UNCHANGED <<onboarding, corsOrigin, server, exitCode, draining, now, rateLimitMax, rateLimitStore, sentimentPipeline, window>>

\* AnalyzeReject of a handler without try/catch: the rejection is unhandled, the
\* 'unhandledRejection' handler exits with 1 and the request has no response
AnalyzeRejectUnhandled(r, fault) ==
  /\ Running
  /\ req[r].pc = "analyze"
  /\ exitCode' = 1
  /\ last' = Turn(r, "analyzeRejected", NoResponse)
  /\ UNCHANGED <<onboarding, corsOrigin, server, draining, now, rateLimitMax, rateLimitStore, sentimentPipeline,
                 moodEntries, req, appended, window>>

\* AnalyzeReject of a handler that pushed the entry before awaiting the analysis
AnalyzeRejectAfterPush(r, fault) ==
  /\ Running
  /\ req[r].pc = "analyze"
  /\ LET response == ErrorHandlerResponse(AnalyzeSentimentCatch(fault))
         entry == MoodEntry(SentimentResult(req[r].text.chars, "NEGATIVE", 0), now, 0)
     IN  /\ req' = [req EXCEPT ![r] = Answered(req[r].route, response.status)]
         /\ last' = Turn(r, "analyzeRejected", response)
         /\ moodEntries' = IF req[r].route = PostMoods THEN PushMood(moodEntries, entry)
                           ELSE moodEntries
  /\ UNCHANGED <<onboarding, corsOrigin, server, exitCode, draining, now, rateLimitMax, rateLimitStore, sentimentPipeline, appended, window>>

\* sentimentPipeline(text) rejects, or its result has no first element: the catch
\* of analyzeSentiment throws, the handler's catch passes the error to errorHandler
AnalyzeReject(r, fault) ==
  /\ Running
  /\ req[r].pc = "analyze"
  /\ LET response == ErrorHandlerResponse(AnalyzeSentimentCatch(fault))
     IN  /\ req' = [req EXCEPT ![r] = Answered(req[r].route, response.status)]
         /\ last' = Turn(r, "analyzeRejected", response)
  /\ UNCHANGED <<onboarding, corsOrigin, server, exitCode, draining, now, rateLimitMax, rateLimitStore, sentimentPipeline, moodEntries,
                 appended, window>>

(***************************************************************************)
(* The process: startServer initialises the pipeline, then listens and     *)
(* installs the signal handlers; gracefulShutdown calls server.close,      *)
(* which stops the server accepting connections and calls back once every  *)
(* connection has ended.  Each request comes on a connection of its own.   *)
(***************************************************************************)
\* startServer calling app.listen without awaiting initializeSentimentPipeline()
StartServerListenFirst ==
  /\ Running
  /\ server = "starting"
  /\ server' = "listening"
  /\ last' = [NoTurn EXCEPT !.event = "started"]
  /\ UNCHANGED <<onboarding, corsOrigin, now, rateLimitMax, rateLimitStore, sentimentPipeline, moodEntries,
                 req, appended, window, exitCode, draining>>

\* startServer: initializeSentimentPipeline() resolved, createApp and app.listen
StartServerResolve ==
  /\ Running
  /\ server = "starting"
  /\ sentimentPipeline' = TRUE
  /\ server' = "listening"
  /\ last' = [NoTurn EXCEPT !.event = "started"]
  /\ UNCHANGED <<onboarding, corsOrigin, now, rateLimitMax, rateLimitStore, moodEntries, req, appended, window,
                 exitCode, draining>>

\* startServer: initializeSentimentPipeline() threw, the catch exits with 1
StartServerReject ==
  /\ Running
  /\ server = "starting"
  /\ exitCode' = 1
  /\ last' = [NoTurn EXCEPT !.event = "startFailed"]
  /\ UNCHANGED <<onboarding, corsOrigin, now, rateLimitMax, rateLimitStore, sentimentPipeline, moodEntries, req,
                 appended, window, server, draining>>

\* the requests that are awaiting a promise
InFlight == {r \in Req : req[r].pc \notin {"idle", "done"}}

\* SIGTERM or SIGINT: gracefulShutdown calls server.close(callback)
GracefulShutdown(signal) ==
  /\ Running
  /\ server \in {"listening", "closing"}
  /\ server' = "closing"
  /\ draining' = IF server = "listening" THEN InFlight ELSE draining
  /\ last' = [NoTurn EXCEPT !.event = signal]
  /\ UNCHANGED <<onboarding, corsOrigin, now, rateLimitMax, rateLimitStore, sentimentPipeline, moodEntries, req,
                 appended, window, exitCode>>

\* the callback of server.close that exits with 0 whatever it is called with
ExitCodeAlwaysZero(err) == 0

\* the callback of server.close: process.exit(1) if (err), process.exit(0) otherwise
ExitCode(err) == IF err THEN 1 ELSE 0

\* the server calls the callback of server.close, once every connection has ended
ServerClosed(err) ==
  /\ Running
  /\ server = "closing"
  /\ InFlight = {}
  /\ exitCode' = ExitCode(err)
  /\ last' = [NoTurn EXCEPT !.event = IF err THEN "closeError" ELSE "closed"]
  /\ UNCHANGED <<onboarding, corsOrigin, now, rateLimitMax, rateLimitStore, sentimentPipeline, moodEntries, req,
                 appended, window, server, draining>>

(***************************************************************************)
(* The next-state relation over given sets of inputs.                      *)
(***************************************************************************)
NextWith(horizon, reqs, routes, clients, texts, queries, labels) ==
  \/ Tick(horizon)
  \/ \E r \in reqs, route \in routes, client \in clients :
     \E text \in TextsOf(route, texts),
        qlimit \in QueriesOf(route, queries), qoffset \in QueriesOf(route, queries) :
       Arrive(r, route, client, text, qlimit, qoffset)
  \/ \E r \in reqs : InitResolve(r)
  \/ \E r \in reqs : InitReject(r)
  \/ \E r \in reqs, label \in labels, score \in Scores, rnd \in Rnds :
       AnalyzeResolve(r, label, score, rnd)
  \/ \E r \in reqs, fault \in Faults : AnalyzeReject(r, fault)

\* every route, for one client
Next ==
  NextWith(ShortTime, Req, Routes, {"ip1"}, {NoText, Str(<<" ", "a">>)}, {"undefined", "0"},
           {"POSITIVE"})

Spec == Init /\ [][Next]_vars

\* the rate limiter alone: requests that are answered in the turn they arrive in
NextRate ==
  \/ Tick(MaxTime)
  \/ \E r \in Req, route \in {GetHealth, GetUnknown}, client \in Clients :
       Arrive(r, route, client, NoText, "undefined", "undefined")

SpecRate == Init /\ [][NextRate]_vars

\* every route, with the promises the requests await settling: the event loop runs
\* the continuation of an await once its promise has settled, and each call of the
\* collaborator (pipeline(...), sentimentPipeline(text)) is taken to settle
NextFair ==
  \/ \E r \in 1..FairReqs, route \in Routes :
     \E text \in TextsOf(route, {NoText, MalformedBody, Str(<<"a">>)}) :
       Arrive(r, route, "ip1", text, "undefined", "undefined")
  \/ \E r \in 1..FairReqs : InitResolve(r)
  \/ \E r \in 1..FairReqs : InitReject(r)
  \/ \E r \in 1..FairReqs : AnalyzeResolve(r, "POSITIVE", 905, 0)
  \/ \E r \in 1..FairReqs, fault \in Faults : AnalyzeReject(r, fault)

PromisesSettle ==
  \A r \in 1..FairReqs :
    /\ WF_vars(InitResolve(r) \/ InitReject(r))
    /\ WF_vars(AnalyzeResolve(r, "POSITIVE", 905, 0) \/ \E fault \in Faults : AnalyzeReject(r, fault))

SpecFair == Init /\ [][NextFair]_vars /\ PromisesSettle

\* the process from startServer to its exit: requests of one client on the POST
\* routes and the health route, the two signals, the end of the drain
InitShutdown == InitAs({MaxReq}, "starting")

NextShutdown ==
  \/ StartServerResolve
  \/ StartServerReject
  \/ \E r \in Req, route \in AnalyzeRoutes \cup {GetHealth} :
     \E text \in TextsOf(route, {Str(<<"a">>)}) :
       Arrive(r, route, "ip1", text, "undefined", "undefined")
  \/ \E r \in Req : AnalyzeResolve(r, "POSITIVE", 905, 0)
  \/ \E r \in Req, fault \in Faults : AnalyzeReject(r, fault)
  \/ \E signal \in {"SIGTERM", "SIGINT"} : GracefulShutdown(signal)
  \/ \E err \in BOOLEAN : ServerClosed(err)

SpecShutdown == InitShutdown /\ [][NextShutdown]_vars

\* the same with what the process itself is bound to do: startServer's await
\* settles, and the server calls the callback of server.close once no connection
\* is left.  The analysis of a request may never settle, and gracefulShutdown
\* sets no timer
ProcessRuns ==
  /\ WF_vars(StartServerResolve \/ StartServerReject)
  /\ WF_vars(\E err \in BOOLEAN : ServerClosed(err))

SpecDrain == InitShutdown /\ [][NextShutdown]_vars /\ ProcessRuns

\* submit-for-analysis alone: every valid text and every label, under a ceiling
\* that the requests of a run do not reach; the clock stands still
NextSentiment ==
  \/ \E r \in 1..ValidateReqs, text \in ValidTexts :
       Arrive(r, PostSentiment, "ip1", text, "undefined", "undefined")
  \/ \E r \in 1..ValidateReqs : InitResolve(r)
  \/ \E r \in 1..ValidateReqs : InitReject(r)
  \/ \E r \in 1..ValidateReqs, label \in AllLabels : AnalyzeResolve(r, label, 905, 0)
  \/ \E r \in 1..ValidateReqs, fault \in Faults : AnalyzeReject(r, fault)

InitSentiment == InitWith({MaxReq})

SpecSentiment == InitSentiment /\ [][NextSentiment]_vars

\* requests of two clients that stay in flight behind the rate limiter, under
\* ceilings of one and more
InitGate == InitWith(1..(MaxReq - 1))

NextGate ==
  \/ Tick(MaxTime)
  \/ \E r \in Req, client \in Clients :
       Arrive(r, PostSentiment, client, Str(<<"a">>), "undefined", "undefined")
  \/ \E r \in Req : InitResolve(r)
  \/ \E r \in Req : InitReject(r)
  \/ \E r \in Req : AnalyzeResolve(r, "POSITIVE", 905, 0)
  \/ \E r \in Req : AnalyzeReject(r, "Model unavailable")

SpecGate == InitGate /\ [][NextGate]_vars

\* every route under each configured origin
InitHeaders == InitOf(0..MaxReq, "listening", Origins)

SpecHeaders == InitHeaders /\ [][NextFair]_vars

\* the requests that match no route, of one client
NextUnmatched ==
  \/ Tick(ShortTime)
  \/ \E r \in Req, route \in Unmatched, text \in {NoText, MalformedBody} :
       Arrive(r, route, "ip1", text, "undefined", "undefined")

SpecUnmatched == Init /\ [][NextUnmatched]_vars

\* list-moods with negative and non-numeric parameters, beside submit-mood
PageQueries == {"undefined", "abc", "-1", "1"}

InitPage == InitWith({MaxReq})

NextPage ==
  \/ \E r \in Req : Arrive(r, PostMoods, "ip1", Str(<<"a">>), "undefined", "undefined")
  \/ \E r \in Req, qlimit \in PageQueries, qoffset \in PageQueries :
       Arrive(r, GetMoods, "ip1", NoText, qlimit, qoffset)
  \/ \E r \in Req : InitResolve(r)
  \/ \E r \in Req : InitReject(r)
  \/ \E r \in Req : AnalyzeResolve(r, "POSITIVE", 905, 0)
  \/ \E r \in Req, fault \in Faults : AnalyzeReject(r, fault)

SpecPage == InitPage /\ [][NextPage]_vars

\* the ledger: submit-mood and list-moods of one client under a ceiling that the
\* requests of a run do not reach
InitLedger == InitWith({MaxReq})

NextLedger ==
  NextWith(ShortTime, Req, {PostMoods, GetMoods}, {"ip1"}, {Str(<<" ", "a">>)},
           {"undefined", "0", "1", "2"}, Labels)

SpecLedger == InitLedger /\ [][NextLedger]_vars

\* readers among submit-mood requests in flight, on a server that has served
\* LedgerCap submit-mood requests before: the pipeline is ready, the ledger is at
\* its cap and the rate-limit records of the earlier requests are gone
Earlier ==
  [i \in 1..LedgerCap |-> MoodEntry(SentimentResult(<<"a">>, "POSITIVE", 905), 0, i)]

InitReader ==
  /\ now = 0
  /\ rateLimitMax = MaxReq
  /\ corsOrigin = DefaultOrigin
  /\ rateLimitStore = <<>>
  /\ sentimentPipeline = TRUE
  /\ moodEntries = Earlier
  /\ req = [r \in Req |-> IdleRequest]
  /\ last = NoTurn
  /\ appended = Earlier
  /\ window = [c \in Clients |-> NoWindow]
  /\ server = "listening"
  /\ exitCode = -1
  /\ draining = {}
  /\ onboarding = InitialOnboarding

NextReader ==
  \/ \E r \in Req : Arrive(r, PostMoods, "ip1", Str(<<"a">>), "undefined", "undefined")
  \/ \E r \in Req : Arrive(r, GetMoods, "ip1", NoText, "undefined", "undefined")
  \/ \E r \in Req, label \in Labels : AnalyzeResolve(r, label, 905, 0)
  \/ \E r \in Req, fault \in Faults : AnalyzeReject(r, fault)

SpecReader == InitReader /\ [][NextReader]_vars

\* submit-mood requests whose clients may disconnect while they wait
InitDisconnect == InitWith({MaxReq})

NextDisconnect ==
  \/ \E r \in Req : Arrive(r, PostMoods, "ip1", Str(<<"a">>), "undefined", "undefined")
  \/ \E r \in Req : Disconnect(r)
  \/ \E r \in Req : InitResolve(r)
  \/ \E r \in Req : InitReject(r)
  \/ \E r \in Req, label \in Labels : AnalyzeResolve(r, label, 905, 0)
  \/ \E r \in Req, fault \in Faults : AnalyzeReject(r, fault)

SpecDisconnect == InitDisconnect /\ [][NextDisconnect]_vars

\* submit-mood requests whose entries get the id mood_<Date.now()>_<suffix>, the
\* suffix cut from Math.random(): each call yields any of its values, the one
\* an earlier call yielded included
RandomSuffixes == {0, 1}

InitIds == InitWith({MaxReq})

NextIds ==
  \/ Tick(ShortTime)
  \/ \E r \in Req : Arrive(r, PostMoods, "ip1", Str(<<"a">>), "undefined", "undefined")
  \/ \E r \in Req : InitResolve(r)
  \/ \E r \in Req : InitReject(r)
  \/ \E r \in Req, rnd \in RandomSuffixes : AnalyzeResolve(r, "POSITIVE", 905, rnd)
  \/ \E r \in Req, fault \in Faults : AnalyzeReject(r, fault)

SpecIds == InitIds /\ [][NextIds]_vars

(***************************************************************************)
(* The onboarding flow.  Each action is one event handler; React renders   *)
(* between two events, so a handler sees the state the handler before it   *)
(* left.  OnboardingScreen is mounted while isOnboarding, and each step    *)
(* shows its own control: the name input, the emoji grid, the frequencies. *)
(***************************************************************************)
\* onChangeText of the name input
HandleNameChange(text) ==
  /\ onboarding.isOnboarding
  /\ onboarding.currentStep = 0
  /\ onboarding' = [onboarding EXCEPT !.name = text, !.nameError = ""]
  /\ UNCHANGED serverVars

\* a press on an emoji of the grid
HandleEmojiToggle(emoji) ==
  /\ onboarding.isOnboarding
  /\ onboarding.currentStep = 1
  /\ onboarding' = [onboarding EXCEPT !.selectedEmojis = Toggle(@, emoji)]
  /\ UNCHANGED serverVars

\* a press on a frequency: setFrequency
SetFrequency(frequency) ==
  /\ onboarding.isOnboarding
  /\ onboarding.currentStep = 2
  /\ onboarding' = [onboarding EXCEPT !.frequency = frequency]
  /\ UNCHANGED serverVars

\* the Back button, rendered when currentStep > 0
Back ==
  /\ onboarding.isOnboarding
  /\ onboarding.currentStep > 0
  /\ onboarding' = [onboarding EXCEPT !.currentStep = @ - 1]
  /\ UNCHANGED serverVars

\* handleComplete: setUser(user) and completeOnboarding()
HandleComplete(o) ==
  [o EXCEPT !.user = <<NewUser(o.name, o.frequency, o.selectedEmojis)>>,
            !.isOnboarding = FALSE]

\* handleNext without the check of the emojis at step 1
HandleNextUnchecked ==
  /\ onboarding.isOnboarding
  /\ UNCHANGED serverVars
  /\ onboarding' =
       IF onboarding.currentStep = 0 /\ ValidateName(onboarding.name) # ""
         THEN [onboarding EXCEPT !.nameError = ValidateName(onboarding.name)]
       ELSE IF onboarding.currentStep < 2
         THEN [onboarding EXCEPT !.currentStep = @ + 1]
       ELSE HandleComplete(onboarding)

\* the Next / Complete button: handleNext
HandleNext ==
  /\ onboarding.isOnboarding
  /\ UNCHANGED serverVars
  /\ onboarding' =
       IF onboarding.currentStep = 0 /\ ValidateName(onboarding.name) # ""
         THEN [onboarding EXCEPT !.nameError = ValidateName(onboarding.name)]
       ELSE IF onboarding.currentStep = 1 /\ Len(onboarding.selectedEmojis) = 0
         THEN [onboarding EXCEPT !.error = "Please select at least one emoji"]
       ELSE IF onboarding.currentStep < 2
         THEN [onboarding EXCEPT !.currentStep = @ + 1]
       ELSE HandleComplete(onboarding)

InitOnboarding == InitWith({MaxReq})

NextOnboarding ==
  \/ \E text \in Names : HandleNameChange(text)
  \/ \E emoji \in Emojis : HandleEmojiToggle(emoji)
  \/ \E frequency \in Frequencies : SetFrequency(frequency)
  \/ Back
  \/ HandleNext

SpecOnboarding == InitOnboarding /\ [][NextOnboarding]_vars

\* the POST routes of one client under a ceiling its last request exceeds
InitSubmit == InitWith({MaxReq - 1})

NextSubmit ==
  NextWith(ShortTime, Req, AnalyzeRoutes, {"ip1"}, FewTexts, {"undefined"}, Labels)

SpecSubmit == InitSubmit /\ [][NextSubmit]_vars

\* the validator: every text, on both POST routes, under a ceiling of 1 or 2; the
\* clock stands still
InitValidate == InitWith({1, 2})

NextValidate ==
  \/ \E r \in 1..ValidateReqs, route \in AnalyzeRoutes, text \in AllTexts :
       Arrive(r, route, "ip1", text, "undefined", "undefined")
  \/ \E r \in 1..ValidateReqs : InitResolve(r)
  \/ \E r \in 1..ValidateReqs : InitReject(r)
  \/ \E r \in 1..ValidateReqs : AnalyzeResolve(r, "POSITIVE", 905, 0)
  \/ \E r \in 1..ValidateReqs, fault \in Faults : AnalyzeReject(r, fault)

SpecValidate == InitValidate /\ [][NextValidate]_vars

(***************************************************************************)
(* C2.  As stated: with RATE_LIMIT_MAX = k, the (k+1)-th request of a      *)
(* client inside one window is denied with 429, and the client's first     *)
(* request after the window has elapsed is allowed and starts a new window *)
(* (count 1, resetTime = now + window).                                    *)
(***************************************************************************)
C2_AsStated ==
  last.gate # "none" =>
    LET w == window[last.client] IN
    /\ (w.seen > rateLimitMax /\ now < w.start + RateLimitWindow) => last.gate = "denied"
    /\ w.seen = 1 =>
         /\ last.gate = "allowed"
         /\ last.client \in DOMAIN rateLimitStore
         /\ rateLimitStore[last.client] = [count |-> 1, resetTime |-> now + RateLimitWindow]

\* C2, amended: the same for every ceiling k >= 1 (with k = 0 the first request
\* of a window is still admitted)
C2_RateLimit ==
  last.gate # "none" =>
    LET w == window[last.client] IN
    /\ (rateLimitMax >= 1 /\ w.seen > rateLimitMax /\ now < w.start + RateLimitWindow)
         => (last.gate = "denied" /\ last.response.status = 429)
    /\ w.seen = 1 =>
         /\ last.gate = "allowed"
         /\ last.client \in DOMAIN rateLimitStore
         /\ rateLimitStore[last.client] = [count |-> 1, resetTime |-> now + RateLimitWindow]

\* C2 witness: a client that was denied in an earlier window is admitted as the
\* first request of a new window
C2_Witness ==
  /\ last.gate = "allowed"
  /\ rateLimitMax >= 1
  /\ window[last.client].seen = 1
  /\ window[last.client].opened >= 2
  /\ window[last.client].denied >= 1

(***************************************************************************)
(* C3.  After N successful appends the ledger holds min(N, cap) entries,   *)
(* exactly the most recent min(N, cap) appended, in insertion order, and   *)
(* never more than cap.                                                    *)
(***************************************************************************)
C3_Ledger ==
  LET n == Len(appended)
      kept == Min(n, LedgerCap)
  IN  /\ Len(moodEntries) = kept
      /\ Len(moodEntries) <= LedgerCap
      /\ moodEntries = SubSeq(appended, n - kept + 1, n)

\* C3 witness: an append beyond the cap has evicted an entry
C3_Witness ==
  /\ last.response.status = 201
  /\ Len(appended) > LedgerCap
  /\ Len(moodEntries) = LedgerCap

(***************************************************************************)
(* C5.  As stated: GET /api/moods?limit=0&offset=0 answers an empty moods  *)
(* array and echoes limit 0 and offset 0, whatever the ledger holds.       *)
(***************************************************************************)
C5_AsStated ==
  (last.route = GetMoods /\ last.qlimit = "0" /\ last.qoffset = "0"
     /\ last.response.status = 200)
    => /\ last.response.moods = <<>>
       /\ last.response.limit = 0
       /\ last.response.offset = 0

(***************************************************************************)
(* C6.  As stated: for non-negative limit and offset, list-moods answers   *)
(* the entries at positions offset .. offset+limit-1 of the ledger read    *)
(* most recent first (none when offset >= total), and total is the size of *)
(* the ledger.                                                             *)
(***************************************************************************)
\* the page the claim describes
PageOf(entries, limit, offset) ==
  LET n == Len(entries)
      count == Max(0, Min(limit, n - offset))
  IN  [i \in 1..count |-> entries[n + 1 - (offset + i)]]

C6_AsStated ==
  (last.route = GetMoods /\ last.response.status = 200
     /\ ~ParseInt(last.qlimit).nan /\ ParseInt(last.qlimit).n >= 0
     /\ ~ParseInt(last.qoffset).nan /\ ParseInt(last.qoffset).n >= 0)
    => /\ last.response.moods =
            PageOf(moodEntries, ParseInt(last.qlimit).n, ParseInt(last.qoffset).n)
       /\ last.response.total = Len(moodEntries)

(***************************************************************************)
(* C7.  The turn in which POST /api/moods answers 201 appends exactly the  *)
(* entry it returns: the ledger grows by one (or stays at the cap, the     *)
(* oldest entry leaving), and list-moods puts the returned entry first.    *)
(***************************************************************************)
C7_Created ==
  [][\A r \in Req :
       (req[r].pc # "done" /\ req'[r].pc = "done" /\ req'[r].route = PostMoods
          /\ req'[r].status = 201)
         => /\ last'.req = r
            /\ last'.response.status = 201
            /\ Len(last'.response.entry) = 1
            /\ Len(moodEntries') = Min(Len(moodEntries) + 1, LedgerCap)
            /\ moodEntries' =
                 SubSeq(Append(moodEntries, last'.response.entry[1]),
                        Len(moodEntries) + 2 - Len(moodEntries'), Len(moodEntries) + 1)
            /\ ListMoods(moodEntries', "undefined", "undefined").total = Len(moodEntries')
            /\ ListMoods(moodEntries', "undefined", "undefined").moods[1]
                 = last'.response.entry[1]]_vars

\* C7 witness: a 201 answered with the ledger already at its cap
C7_Witness ==
  /\ last.route = PostMoods
  /\ last.response.status = 201
  /\ Len(appended) = LedgerCap + 1
  /\ moodEntries[Len(moodEntries)] = last.response.entry[1]

(***************************************************************************)
(* C1.  As stated: analyze calls that arrive while the pipeline is not     *)
(* initialised share one pipeline-initialisation invocation (and so its    *)
(* outcome): at no time is more than one invocation of pipeline(...)       *)
(* outstanding.  Every request waiting in initializeSentimentPipeline has  *)
(* made its own invocation.                                                *)
(***************************************************************************)
\* the requests waiting in initializeSentimentPipeline, one invocation each
Initializing == {r \in Req : req[r].pc = "init"}

C1_AsStated == Cardinality(Initializing) <= 1

(***************************************************************************)
(* C4.  As stated: a POST /api/sentiment or POST /api/moods whose text is  *)
(* missing, not a string, blank after trimming or longer than the limit is *)
(* answered 400 'Validation Error'.                                        *)
(***************************************************************************)
\* a text the claim calls invalid
Invalid(text) ==
  \/ text.kind # "string"
  \/ Len(Trim(text.chars)) = 0
  \/ Len(text.chars) > TextLimit

C8_FailedSubmit ==
  [][(last'.req \in Req /\ last'.route = PostMoods /\ last'.response.status # 201)
       => moodEntries' = moodEntries]_vars

\* C8 witness: an analysis failed with 500 while the ledger held an entry, after a
\* request of the run was denied by the rate limiter
C8_Witness ==
  /\ last.route = PostMoods
  /\ last.event = "analyzeRejected"
  /\ last.response.status = 500
  /\ moodEntries # <<>>
  /\ \E r \in Req : req[r].status = 429

(***************************************************************************)
(* C9.  When the initialisation a call waits on fails, the call is         *)
(* answered 503 with the error 'Sentiment analysis service unavailable'.   *)
(***************************************************************************)
C9_InitFailure ==
  last.event = "initRejected"
    => /\ last.response.status = 503
       /\ last.response.error = InitFailedMessage
       /\ req[last.req].pc = "done"
       /\ req[last.req].status = 503

\* C9 witness: an initialisation failed while another call was initialising too
C9_Witness ==
  /\ last.event = "initRejected"
  /\ last.response.status = 503
  /\ \E r \in Req : r # last.req /\ req[r].pc = "init"

(***************************************************************************)
(* C10.  As stated: after a failed initialisation the service is not       *)
(* Ready (and the next analyze call starts a new initialisation).          *)
(***************************************************************************)
C10_AsStated == last.event = "initRejected" => ~sentimentPipeline

(***************************************************************************)
(* C11.  When the service is Ready and the collaborator fails during an    *)
(* analyze call, the request is answered 500 with the error 'Internal      *)
(* Server Error' and the message 'An unexpected error occurred': not 503,  *)
(* and neither field carries the text of the collaborator's fault.         *)
(***************************************************************************)
C11_AnalyzeFailure ==
  (last.event = "analyzeRejected" /\ sentimentPipeline)
    => /\ last.response.status = 500
       /\ last.response.error = "Internal Server Error"
       /\ last.response.message = "An unexpected error occurred"
       /\ last.response.error \notin Faults
       /\ last.response.message \notin Faults
       /\ req[last.req].pc = "done"
       /\ req[last.req].status = 500

\* C11 witness: a submit-for-analysis of a Ready service failed in the collaborator
C11_Witness ==
  /\ last.event = "analyzeRejected"
  /\ last.route = PostSentiment
  /\ sentimentPipeline
  /\ last.response.status = 500

(***************************************************************************)
(* C12.  Once the pipeline has been initialised the service stays Ready:   *)
(* no turn of the server (an arrival, an analysis that resolves or fails,  *)
(* another initialisation that resolves or fails) takes sentimentPipeline  *)
(* back to null.                                                           *)
(***************************************************************************)
C12_StaysReady == [][sentimentPipeline => sentimentPipeline']_vars

\* C12 witness: the service is Ready after an analysis failed in the collaborator
\* and an initialisation that ran beside the successful one failed
C12_Witness ==
  /\ sentimentPipeline
  /\ last.event = "initRejected"
  /\ \E r \in Req : req[r].pc = "done" /\ req[r].status = 500

(***************************************************************************)
(* C13.  As stated: GET /api/health is exempt from rate limiting: it is    *)
(* never answered 429 and the rate limiter does not count it (it does not  *)
(* run for it).                                                            *)
(***************************************************************************)
C13_AsStated ==
  (last.event = "arrive" /\ last.route = GetHealth)
    => /\ last.response.status # 429
       /\ last.gate = "none"

(***************************************************************************)
(* C14.  As stated: GET /api/health answers 200 with status 'healthy' in   *)
(* every state of the pipeline, reports sentimentAnalysis 'ready' exactly  *)
(* when the pipeline is initialised and 'initializing' otherwise, and      *)
(* starts no initialisation: it is answered in the turn it arrives in.     *)
(***************************************************************************)
C14_AsStated ==
  (last.event = "arrive" /\ last.route = GetHealth)
    => /\ last.response.status = 200
       /\ last.response.health = "healthy"
       /\ last.response.sentimentAnalysis =
            (IF sentimentPipeline THEN "ready" ELSE "initializing")
       /\ req[last.req].pc = "done"

C16_ExactlyOne ==
  /\ \A r \in Req : (req[r].pc # "idle") ~> (req[r].pc = "done")
  /\ [][\A r \in Req :
          /\ (last'.req = r /\ last'.response # NoResponse)
               <=> (req[r].pc # "done" /\ req'[r].pc = "done")
          /\ (req[r].pc = "done" /\ req'[r].pc = "done")
               => req'[r].status = req[r].status
          /\ (req[r].pc # "done" /\ req'[r].pc = "done")
               => (req'[r].status = last'.response.status /\ req'[r].status # 0)]_vars

\* C16 witness: every request of a run is answered, one of them by the failure of
\* its initialisation and one by the failure of its analysis
C16_Witness ==
  /\ \A r \in 1..FairReqs : req[r].pc = "done"
  /\ \E r \in Req : req[r].status = 503
  /\ \E r \in Req : req[r].status = 500 /\ req[r].route = PostMoods

(***************************************************************************)
(* C17.  After SIGTERM or SIGINT the server accepts no new request, the    *)
(* process exits only when no request is in flight (every request that was *)
(* in flight at the signal has its response), and it exits with 0 when the *)
(* server closed without error and with 1 when it closed with an error.    *)
(***************************************************************************)
C17_GracefulShutdown ==
  /\ [][server = "closing"
          => /\ server' = "closing"
             /\ \A r \in Req : req[r].pc = "idle" => req'[r].pc = "idle"]_vars
  /\ [][(server = "closing" /\ Running /\ ~Running')
          => /\ InFlight = {}
             /\ \A r \in draining : req[r].pc = "done" /\ req[r].status # 0
             /\ req' = req
             /\ last'.event \in {"closed", "closeError"}
             /\ exitCode' = (IF last'.event = "closeError" THEN 1 ELSE 0)]_vars

\* C17 witness: the process has exited with 0 after a signal that found a request
\* in flight
C17_Witness ==
  /\ exitCode = 0
  /\ last.event = "closed"
  /\ draining # {}
  /\ \A r \in draining : req[r].pc = "done"

(***************************************************************************)
(* C18.  As stated: a fault raised while a request is handled (the         *)
(* initialisation or the analysis fails) does not end the process and is   *)
(* answered 500 'Internal Server Error'; the server goes on serving.       *)
(***************************************************************************)
C18_AsStated ==
  last.event \in {"initRejected", "analyzeRejected"}
    => /\ Running
       /\ server = "listening"
       /\ last.response.status = 500
       /\ last.response.error = "Internal Server Error"

\* C18, amended: the same, but the failure of an initialisation is answered 503
\* with the error 'Sentiment analysis service unavailable'
C18_Faults ==
  last.event \in {"initRejected", "analyzeRejected"}
    => /\ Running
       /\ server = "listening"
       /\ req[last.req].pc = "done"
       /\ req[last.req].status = last.response.status
       /\ IF last.event = "initRejected"
            THEN /\ last.response.status = 503
                 /\ last.response.error = InitFailedMessage
            ELSE /\ last.response.status = 500
                 /\ last.response.error = "Internal Server Error"

\* C18 witness: after the analysis of one request failed with 500, a later request
\* is admitted and handed to the collaborator
C18_Witness ==
  /\ last.event = "arrive"
  /\ last.gate = "allowed"
  /\ req[last.req].pc = "analyze"
  /\ \E r \in Req : r < last.req /\ req[r].pc = "done" /\ req[r].status = 500

(***************************************************************************)
(* C19.  When the collaborator of a Ready service returns a label for a    *)
(* valid text, POST /api/sentiment answers 200 with sentiment 'positive'   *)
(* exactly when the label is 'positive' in some mix of upper and lower     *)
(* case, 'negative' for every other label, and with the trimmed text.      *)
(***************************************************************************)
\* the labels that equal 'positive' when case is ignored
EqualsPositive == {"POSITIVE", "Positive", "positive"}

C19_Normalized ==
  (last.event = "analyzed" /\ last.route = PostSentiment)
    => /\ sentimentPipeline
       /\ last.text \in ValidTexts
       /\ last.response.status = 200
       /\ req[last.req].status = 200
       /\ last.response.sentiment =
            (IF last.label \in EqualsPositive THEN "positive" ELSE "negative")
       /\ last.response.text = Trim(last.text.chars)

\* C19 witness: a label in mixed case is answered 'positive', with a text that
\* the trim shortened
C19_Witness ==
  /\ last.event = "analyzed"
  /\ last.route = PostSentiment
  /\ last.label = "Positive"
  /\ last.response.sentiment = "positive"
  /\ last.response.text # last.text.chars

(***************************************************************************)
(* C20.  POST /api/sentiment never changes the ledger: every turn of such  *)
(* a request (its arrival, answered 400 or 429 or left waiting, the end of *)
(* its initialisation, its analysis resolving with 200 or failing with     *)
(* 500) leaves moodEntries as it was.                                      *)
(***************************************************************************)
C20_NoPersist ==
  [][(last'.req \in Req /\ last'.route = PostSentiment)
       => (moodEntries' = moodEntries /\ appended' = appended)]_vars

\* C20 witness: a submit-for-analysis is answered 200 while the ledger holds an
\* entry
C20_Witness ==
  /\ last.route = PostSentiment
  /\ last.event = "analyzed"
  /\ last.response.status = 200
  /\ moodEntries # <<>>

(***************************************************************************)
(* C21.  As stated: in list-moods a negative or non-numeric limit is taken *)
(* as the default 50 and a negative or non-numeric offset as the default   *)
(* 0, and the request is answered 200 with the page of those values.       *)
(***************************************************************************)
\* the value the claim gives a parameter: the default when it is not a number or
\* is negative
Defaulted(q, default) ==
  IF ParseInt(q).nan \/ ParseInt(q).n < 0 THEN default ELSE ParseInt(q).n

C21_AsStated ==
  (last.event = "arrive" /\ last.route = GetMoods /\ last.gate = "allowed")
    => /\ last.response.status = 200
       /\ last.response.limit = Defaulted(last.qlimit, DefaultLimit)
       /\ last.response.offset = Defaulted(last.qoffset, DefaultOffset)
       /\ last.response.moods =
            PageOf(moodEntries, Defaulted(last.qlimit, DefaultLimit),
                   Defaulted(last.qoffset, DefaultOffset))

(***************************************************************************)
(* C22.  Every response the server sends (200, 201, 400, 404, 429, 500,    *)
(* 503, the reply to an OPTIONS request) carries X-Content-Type-Options:   *)
(* nosniff, X-Frame-Options: DENY and Access-Control-Allow-Origin with the *)
(* configured origin.                                                      *)
(***************************************************************************)
C22_Headers ==
  last.response # NoResponse
    => {<<"X-Content-Type-Options", "nosniff">>, <<"X-Frame-Options", "DENY">>,
        <<"Access-Control-Allow-Origin", corsOrigin>>} \subseteq last.headers

\* C22 witness: under a configured origin an OPTIONS request is answered with
\* the headers, after another request was answered 503
C22_Witness ==
  /\ last.route = Options
  /\ last.response.status = 200
  /\ corsOrigin # DefaultOrigin
  /\ <<"Access-Control-Allow-Origin", corsOrigin>> \in last.headers
  /\ \E r \in Req : req[r].status = 503

(***************************************************************************)
(* C23.  With a ceiling of at least one, however the turns of the requests *)
(* in flight interleave, the requests of one client admitted within one    *)
(* window never exceed the ceiling, and the client's live record counts    *)
(* exactly the admitted ones: lookup, check and increment are one step.    *)
(***************************************************************************)
C23_Atomic ==
  \A c \in Clients :
    rateLimitMax >= 1
      => /\ window[c].admitted <= rateLimitMax
         /\ (c \in DOMAIN rateLimitStore /\ rateLimitStore[c].resetTime >= now)
              => rateLimitStore[c].count = window[c].admitted

\* C23 witness: a client is denied at the ceiling while two admitted requests
\* are still in flight
C23_Witness ==
  /\ last.gate = "denied"
  /\ rateLimitMax >= 1
  /\ window[last.client].admitted = rateLimitMax
  /\ Cardinality({r \in Req : req[r].pc \in {"init", "analyze"}}) >= 2

(***************************************************************************)
(* C24.  A list-moods request, at whatever point among the turns of the    *)
(* submit-mood requests in flight it is served, reports a ledger of at     *)
(* most LedgerCap entries which are exactly the newest min(N, cap) entries *)
(* appended so far: never one over the cap, never a half-trimmed one.      *)
(***************************************************************************)
C24_ReaderSees ==
  (last.route = GetMoods /\ last.response.status = 200)
    => LET n == Len(appended)
           kept == Min(n, LedgerCap)
       IN  /\ last.response.total <= LedgerCap
           /\ last.response.total = kept
           /\ Reverse(last.response.moods) = SubSeq(appended, n - kept + 1, n)

\* C24 witness: a reader is served after the ledger was taken over its cap,
\* while another submit-mood request is still in flight
C24_Witness ==
  /\ last.route = GetMoods
  /\ last.response.status = 200
  /\ Len(appended) > LedgerCap
  /\ last.response.total = LedgerCap
  /\ \E r \in Req : req[r].route = PostMoods /\ req[r].pc = "analyze"

(***************************************************************************)
(* C25.  A request the rate limiter denies leaves its client's record as   *)
(* it was, count and resetTime, and a call of the rate limiter, admitting  *)
(* or denying, changes nothing of the server's state but the record map:   *)
(* not the ledger, the pipeline, the configuration or the clock.           *)
(***************************************************************************)
C25_Frame ==
  [][(last'.event = "arrive" /\ last'.gate # "none")
       => /\ (last'.gate = "denied"
                => /\ last'.client \in DOMAIN rateLimitStore
                   /\ last'.client \in DOMAIN rateLimitStore'
                   /\ rateLimitStore'[last'.client] = rateLimitStore[last'.client])
          /\ moodEntries' = moodEntries
          /\ sentimentPipeline' = sentimentPipeline
          /\ rateLimitMax' = rateLimitMax
          /\ corsOrigin' = corsOrigin
          /\ now' = now
          /\ server' = server
          /\ exitCode' = exitCode]_vars

\* C25 witness: a request was denied and the client's record stands at the
\* ceiling, while the other client has a record of its own
C25_Witness ==
  /\ last.gate = "denied"
  /\ rateLimitMax >= 1
  /\ last.client \in DOMAIN rateLimitStore
  /\ rateLimitStore[last.client].count = rateLimitMax
  /\ \E c \in DOMAIN rateLimitStore : c # last.client

(***************************************************************************)
(* C26.  A record counts as expired as soon as now >= resetTime: a request *)
(* arriving at the instant resetTime replaces the record (count 1, a new   *)
(* window) and is allowed.  Hence once a request has passed the rate       *)
(* limiter its client's record ends later than now: a record with          *)
(* resetTime <= now has been replaced by one with resetTime = now + window.*)
(***************************************************************************)
C26_AsStated ==
  (last.event = "arrive" /\ last.gate # "none")
    => /\ last.client \in DOMAIN rateLimitStore
       /\ rateLimitStore[last.client].resetTime > now

(***************************************************************************)
(* C27.  Every call of the rate limiter has the outcome, and leaves the    *)
(* calling client the record (count and resetTime), that the same call     *)
(* without the purge of expired records has; the two maps differ only in   *)
(* expired records of other clients.                                       *)
(***************************************************************************)
C27_PurgeEquivalent ==
  [][(last'.event = "arrive" /\ last'.gate # "none")
       => LET c == last'.client
              unpurged == RateLimitMiddlewareNoPurge(rateLimitStore, c, now, rateLimitMax)
          IN  /\ (last'.gate = "allowed") = unpurged.allowed
              /\ rateLimitStore'[c] = unpurged.store[c]
              /\ DOMAIN rateLimitStore' \subseteq DOMAIN unpurged.store
              /\ \A k \in DOMAIN unpurged.store :
                    IF k \in DOMAIN rateLimitStore'
                      THEN rateLimitStore'[k] = unpurged.store[k]
                      ELSE k # c /\ unpurged.store[k].resetTime < now]_vars

\* C27 witness: the call of a client that is denied has purged the expired
\* record of the other client
C27_Witness ==
  /\ last.gate = "denied"
  /\ \E k \in Clients :
       /\ k # last.client
       /\ window[k].start # -1
       /\ k \notin DOMAIN rateLimitStore

(***************************************************************************)
(* C28.  A request the rate limiter denies is answered 429 in the turn it  *)
(* arrives in, having reached neither the validator, the initialization of *)
(* the pipeline, the analysis nor the ledger; it is not kept waiting, and  *)
(* once answered 429 it is never taken up again.                           *)
(***************************************************************************)
Reached(ran) == {ran[i] : i \in DOMAIN ran}

C28_FailFast ==
  [][/\ (last'.gate = "denied")
          => /\ last'.response.status = 429
             /\ req'[last'.req] = Answered(last'.route, 429)
             /\ Reached(last'.ran) \cap {"handler", "validateSentimentInput",
                                          "analyzeSentiment", "notFound"} = {}
             /\ sentimentPipeline' = sentimentPipeline
             /\ moodEntries' = moodEntries
      /\ \A r \in Req : req[r].status = 429 => req'[r] = req[r]]_vars

\* C28 witness: a submit-mood request was denied, and a later turn of another
\* request has left it answered 429
C28_Witness ==
  /\ last.event = "analyzed"
  /\ \E r \in Req : req[r].route = PostMoods /\ req[r].status = 429 /\ req[r].pc = "done"

(***************************************************************************)
(* C29.  For every request the rate limiter decides before the request     *)
(* logger records the request: the order is CORS and security headers,     *)
(* rate limiter, request logger, then the route's validator and handler.   *)
(***************************************************************************)
PositionIn(ran, name) == CHOOSE i \in DOMAIN ran : ran[i] = name

C29_AsStated ==
  (last.event = "arrive" /\ last.gate # "none")
    => /\ {"corsMiddleware", "rateLimitMiddleware", "requestLogger"} \subseteq Reached(last.ran)
       /\ PositionIn(last.ran, "corsMiddleware") < PositionIn(last.ran, "rateLimitMiddleware")
       /\ PositionIn(last.ran, "rateLimitMiddleware") < PositionIn(last.ran, "requestLogger")
       /\ \A i \in DOMAIN last.ran :
            last.ran[i] \in {"handler", "validateSentimentInput"}
              => PositionIn(last.ran, "requestLogger") < i

(***************************************************************************)
(* C30.  analyzeSentiment calls the collaborator with the trimmed text:    *)
(* the string the collaborator receives equals the trimmed text returned   *)
(* in the result, also for a text with leading or trailing white space.    *)
(***************************************************************************)
C30_AsStated ==
  (last.event = "analyzed" /\ last.route = PostSentiment)
    => PipelineInput(last.text) = last.response.text

(***************************************************************************)
(* C31.  The validator accepts every string whose trimmed form is not      *)
(* empty and whose untrimmed length is at most the limit, a text of        *)
(* exactly the limit included: a request with such a text is never         *)
(* answered 400, and when it comes to the validator it is passed on to the *)
(* sentiment analysis.                                                     *)
(***************************************************************************)
C31_Accepts ==
  (/\ last.event = "arrive"
   /\ last.route \in AnalyzeRoutes
   /\ last.text.kind = "string"
   /\ Trim(last.text.chars) # <<>>
   /\ Len(last.text.chars) <= TextLimit)
    => /\ last.response.status # 400
       /\ "validateSentimentInput" \in Reached(last.ran)
            => /\ "analyzeSentiment" \in Reached(last.ran)
               /\ last.response = NoResponse
               /\ req[last.req].pc \in {"init", "analyze"}
               /\ req[last.req].text = last.text

\* C31 witness: a text of exactly the limit, with white space in it, has passed
\* the validator and is waiting for the analysis
C31_Witness ==
  /\ last.event = "arrive"
  /\ last.route = PostMoods
  /\ Len(last.text.chars) = TextLimit
  /\ Trim(last.text.chars) # last.text.chars
  /\ "validateSentimentInput" \in Reached(last.ran)
  /\ req[last.req].pc = "analyze"

(***************************************************************************)
(* C32.  When the client of a POST /api/moods request has disconnected     *)
(* while the request was waiting for the analysis, the result is not       *)
(* appended to the ledger when the analysis completes.                     *)
(***************************************************************************)
C32_AsStated ==
  (last.event = "analyzed" /\ last.route = PostMoods /\ last.closed)
    => \A i \in DOMAIN last.response.entry :
         \A j \in DOMAIN moodEntries : moodEntries[j] # last.response.entry[i]

(***************************************************************************)
(* C33.  After a termination signal the process eventually terminates,     *)
(* even if a request in flight never completes: the drain is bounded by a  *)
(* timeout.                                                                *)
(***************************************************************************)
C33_AsStated == (server = "closing") ~> (exitCode # -1)

(***************************************************************************)
(* C34.  The entries held in the ledger have pairwise distinct ids at any  *)
(* time, also when requests complete within the same millisecond.          *)
(***************************************************************************)
C34_AsStated ==
  \A i \in DOMAIN moodEntries : \A j \in DOMAIN moodEntries :
    i # j => moodEntries[i].id # moodEntries[j].id

(***************************************************************************)
(* C35.  Whether a client's request is allowed, and the count its record   *)
(* then holds, follow from that client's own earlier requests and the      *)
(* clock alone (the start of its window and the number of its requests in  *)
(* it), however the requests of other clients are interleaved; and a       *)
(* request changes no other client's record, it can only remove expired    *)
(* ones.                                                                   *)
(***************************************************************************)
C35_OwnHistory ==
  [][(last'.event = "arrive" /\ last'.gate # "none")
       => LET c == last'.client
              own == window[c]
              fresh == own.start = -1 \/ now > own.start + RateLimitWindow
          IN  /\ (last'.gate = "allowed") = (fresh \/ own.seen < rateLimitMax)
              /\ c \in DOMAIN rateLimitStore'
              /\ rateLimitStore'[c].count =
                    IF fresh THEN 1
                    ELSE IF own.seen < rateLimitMax THEN own.seen + 1
                    ELSE Max(rateLimitMax, 1)
              /\ \A k \in DOMAIN rateLimitStore' \ {c} :
                    k \in DOMAIN rateLimitStore /\ rateLimitStore'[k] = rateLimitStore[k]
              /\ \A k \in DOMAIN rateLimitStore \ DOMAIN rateLimitStore' :
                    rateLimitStore[k].resetTime < now]_vars

\* C35 witness: a client is allowed while the other client, inside its window,
\* has been denied at the ceiling
C35_Witness ==
  /\ last.gate = "allowed"
  /\ \E k \in Clients \ {last.client} :
       /\ window[k].denied >= 1
       /\ k \in DOMAIN rateLimitStore
       /\ rateLimitStore[k].resetTime >= now
       /\ rateLimitStore[k].count >= rateLimitMax

(***************************************************************************)
(* C36.  After every pass of a request through the rate limiter the store  *)
(* holds no record whose window ended before the request's time: the       *)
(* records left are those of clients seen within the last window span.     *)
(***************************************************************************)
C36_NoExpired ==
  (last.event = "arrive" /\ last.gate # "none")
    => \A k \in DOMAIN rateLimitStore :
         /\ ~(rateLimitStore[k].resetTime < now)
         /\ window[k].start # -1
         /\ now - RateLimitWindow <= window[k].start

\* C36 witness: the pass of an allowed request has removed the expired record of
\* the other client and left the caller's alone
C36_Witness ==
  /\ last.gate = "allowed"
  /\ DOMAIN rateLimitStore = {last.client}
  /\ \E k \in Clients \ {last.client} : window[k].start # -1

(***************************************************************************)
(* C37.  startServer listens only after the pipeline has been initialised: *)
(* the server is listening (or closing) only with the pipeline ready, a    *)
(* failed initialisation at startup ends the process with code 1 while it  *)
(* has never listened, and no request is served, or even taken up, while   *)
(* the service is not ready; the health route never reports otherwise.     *)
(***************************************************************************)
C37_ReadyBeforeListen ==
  /\ server # "starting" => sentimentPipeline
  /\ server = "starting" => \A r \in Req : req[r] = IdleRequest
  /\ last.event = "startFailed"
       => /\ exitCode = 1
          /\ server = "starting"
          /\ ~sentimentPipeline
  /\ last.event = "arrive"
       => /\ sentimentPipeline
          /\ last.response.status # 503
          /\ last.route = GetHealth => last.response.sentimentAnalysis = "ready"
  /\ \A r \in Req : req[r].pc # "init"

\* C37 witness: the started server answers the health check with the service
\* ready, while a request is waiting for its analysis
C37_Witness ==
  /\ last.event = "arrive"
  /\ last.route = GetHealth
  /\ last.response.status = 200
  /\ last.response.sentimentAnalysis = "ready"
  /\ \E r \in Req : req[r].pc = "analyze"

(***************************************************************************)
(* C38.  In the onboarding flow the step index stays within 0..2 under any *)
(* sequence of Next and Back presses and edits; onboarding completes (user *)
(* set, isOnboarding false) only from step 2, with a name whose trimmed    *)
(* length is between 2 and the maximum and with at least one emoji         *)
(* selected; and once completed, isOnboarding never becomes true again.    *)
(***************************************************************************)
C38_StepInRange == onboarding.currentStep \in 0..2

C38_Completes ==
  (onboarding.isOnboarding /\ ~onboarding'.isOnboarding)
    => /\ onboarding.currentStep = 2
       /\ Len(Trim(onboarding.name)) >= NameMin
       /\ Len(Trim(onboarding.name)) <= NameMax
       /\ Len(onboarding.selectedEmojis) >= 1
       /\ onboarding'.user =
            <<NewUser(onboarding.name, onboarding.frequency, onboarding.selectedEmojis)>>

C38_StaysCompleted == ~onboarding.isOnboarding => ~onboarding'.isOnboarding

C38_Onboarding ==
  /\ []C38_StepInRange
  /\ [](onboarding.isOnboarding <=> onboarding.user = <<>>)
  /\ [][C38_Completes /\ C38_StaysCompleted]_vars

\* C38 witness: onboarding was completed after the user had gone back and
\* changed the name and the emojis
C38_Witness ==
  /\ ~onboarding.isOnboarding
  /\ onboarding.user # <<>>
  /\ onboarding.nameError = ""
  /\ onboarding.error # ""
  /\ Trim(onboarding.name) # onboarding.name
  /\ Len(onboarding.selectedEmojis) = 2
  /\ onboarding.frequency = "weekly"

====
